---- MODULE Spec2Model ----
(***************************************************************************)
(* tastypie-dynamodb: the list endpoint of DynamoHashResource /            *)
(* DynamoHashRangeResource (resources.py).  get_list translates the query  *)
(* string and the path parameters of a request into one store call (query  *)
(* or scan, optionally followed by a batch-get), post-filters and sorts    *)
(* the rows, and builds the "next" URI.  The model follows get_list        *)
(* statement by statement; Python exceptions are results with err set.     *)
(*                                                                         *)
(* Names (attribute names, parameter names, filter keys) are TLA+ strings, *)
(* so that hkey + '__eq' is hkey \o "__eq".  Parameter VALUES are          *)
(* sequences of one-character strings, so that value[-1], value[:-1],      *)
(* value.lower() and int(value) are computed and not assumed.              *)
(***************************************************************************)
EXTENDS Integers, Sequences, FiniteSets, TLC

(***************************************************************************)
(* Bounds of the model.                                                    *)
(***************************************************************************)
\* the page sizes a client asks for are 1..MaxLimit (besides the default)
MaxLimit == 2
\* a client follows "next" links at most MaxPages times in a row
MaxPages == 3

(***************************************************************************)
(* Python values.  k is the Python type; s the characters of a str; n the  *)
(* number of an int or bool (True is 1).                                   *)
(***************************************************************************)
PStr(s) == [k |-> "str", s |-> s, n |-> 0]
PInt(n) == [k |-> "int", s |-> <<>>, n |-> n]
PBool(b) == [k |-> "bool", s |-> <<>>, n |-> IF b THEN 1 ELSE 0]
PNone == [k |-> "none", s |-> <<>>, n |-> 0]
\* a name carried as a value (the 'index' entry of dynamo_filter)
PName(nm) == [k |-> "name", s |-> <<nm>>, n |-> 0]

\* Python truthiness: '' , 0, False and None are false
Truthy(v) ==
    CASE v.k = "str" -> Len(v.s) > 0
      [] v.k = "int" -> v.n # 0
      [] v.k = "bool" -> v.n # 0
      [] v.k = "name" -> TRUE
      [] OTHER -> FALSE

(***************************************************************************)
(* Python dicts are functions; their keys are the function's domain.       *)
(***************************************************************************)
EmptyDict == << >>
Put(d, key, v) == [x \in (DOMAIN d) \cup {key} |-> IF x = key THEN v ELSE d[x]]
Del(d, key) == [x \in (DOMAIN d) \ {key} |-> d[x]]
\* d.get(key, default)
Get(d, key, default) == IF key \in DOMAIN d THEN d[key] ELSE default

(***************************************************************************)
(* Strings: str.lower(), int(str), '%s' % value.                           *)
(***************************************************************************)
Upper == <<"A", "B", "C", "D", "E", "F", "G", "H", "I", "J", "K", "L", "M",
           "N", "O", "P", "Q", "R", "S", "T", "U", "V", "W", "X", "Y", "Z">>
LowerLetters == <<"a", "b", "c", "d", "e", "f", "g", "h", "i", "j", "k", "l", "m",
           "n", "o", "p", "q", "r", "s", "t", "u", "v", "w", "x", "y", "z">>
Digits == <<"0", "1", "2", "3", "4", "5", "6", "7", "8", "9">>

LowerCh(c) ==
    IF \E i \in 1..26 : Upper[i] = c
    THEN LowerLetters[CHOOSE i \in 1..26 : Upper[i] = c]
    ELSE c
LowerStr(s) == [i \in 1..Len(s) |-> LowerCh(s[i])]

IsDigit(c) == \E i \in 1..10 : Digits[i] = c
DigitVal(c) == (CHOOSE i \in 1..10 : Digits[i] = c) - 1

RECURSIVE DigitsVal(_)
DigitsVal(s) ==
    IF Len(s) = 0 THEN 0
    ELSE 10 * DigitsVal(SubSeq(s, 1, Len(s) - 1)) + DigitVal(s[Len(s)])

\* int(s) of a str: an optional sign and at least one digit, else ValueError
IntParses(s) ==
    LET body == IF Len(s) > 0 /\ s[1] \in {"-", "+"} THEN Tail(s) ELSE s
    IN Len(body) > 0 /\ \A i \in 1..Len(body) : IsDigit(body[i])
IntOfStr(s) ==
    IF s[1] = "-" THEN 0 - DigitsVal(Tail(s))
    ELSE IF s[1] = "+" THEN DigitsVal(Tail(s))
    ELSE DigitsVal(s)

\* int(v) of a Python value: defined on int, bool and a str that parses
CanInt(v) == v.k \in {"int", "bool"} \/ (v.k = "str" /\ IntParses(v.s))
ToInt(v) == IF v.k = "str" THEN IntOfStr(v.s) ELSE v.n

RECURSIVE NatStr(_)
NatStr(n) ==
    IF n < 10 THEN <<Digits[n + 1]>>
    ELSE NatStr(n \div 10) \o <<Digits[(n % 10) + 1]>>
\* str(n) of an int
IntStr(n) == IF n < 0 THEN <<"-">> \o NatStr(0 - n) ELSE NatStr(n)

\* '%s' % v
Fmt(v) ==
    CASE v.k = "str" -> v.s
      [] v.k = "int" -> IntStr(v.n)
      [] v.k = "bool" -> IF v.n = 1 THEN <<"T", "r", "u", "e">> ELSE <<"F", "a", "l", "s", "e">>
      [] v.k = "name" -> v.s
      [] OTHER -> <<"N", "o", "n", "e">>

\* the str values the code compares against
STAR == <<"*">>
TRUE_S == <<"t", "r", "u", "e">>
FALSE_S == <<"f", "a", "l", "s", "e">>


(***************************************************************************)
(* The tables the resources are declared on.  A table is what boto's Table *)
(* and the resource class declare: the hash key, the optional range key    *)
(* (hasRange), the secondary indexes (name, the name of the index's RANGE  *)
(* part, projection type) and the resource's fields (instance name,        *)
(* attribute, and what the field's convert does).                          *)
(***************************************************************************)
c_alice == <<"a", "l", "i", "c", "e">>
c_bob == <<"b", "o", "b">>
c_sports == <<"s", "p", "o", "r", "t", "s">>
c_news == <<"n", "e", "w", "s">>

StrField(nm) == [instance_name |-> nm, attribute |-> nm, conv |-> "str"]
IntField(nm) == [instance_name |-> nm, attribute |-> nm, conv |-> "int"]
CategoryIndex(proj) == [name |-> "category-index", field |-> "category", projection_type |-> proj]

Event(u, ts, cat, x) ==
    [a \in {"user", "ts", "category", "x"} |->
        CASE a = "user" -> PStr(u) [] a = "ts" -> PInt(ts)
          [] a = "category" -> PStr(cat) [] OTHER -> PInt(x)]
LogRow(u, seq, cat) ==
    [a \in {"user", "seq", "category"} |->
        CASE a = "user" -> PStr(u) [] a = "seq" -> PInt(seq) [] OTHER -> PStr(cat)]
Doc(id, nm, x) ==
    [a \in {"id", "name", "x"} |->
        CASE a = "id" -> PInt(id) [] a = "name" -> PStr(nm) [] OTHER -> PInt(x)]
Account(u, cat) ==
    [a \in {"user", "category"} |->
        CASE a = "user" -> PStr(u) [] OTHER -> PStr(cat)]

\* rows in storage order (the order a scan and a batch-get return them in)
EventRows ==
    << Event(c_alice, 200, c_sports, 1), Event(c_bob, 150, c_sports, 2),
       Event(c_alice, 100, c_sports, 3), Event(c_alice, 120, c_news, 4),
       Event(c_alice, 0, c_sports, 5), Event(c_alice, 150, c_sports, 6),
       Event(c_alice, 250, c_sports, 7) >>
LogRows ==
    << LogRow(c_alice, 3, c_sports), LogRow(c_alice, 1, c_sports),
       LogRow(c_bob, 1, c_sports), LogRow(c_alice, 2, c_news),
       LogRow(c_alice, 4, c_sports) >>
DocRows ==
    << Doc(7, <<"a", "2">>, 1), Doc(7, <<"b", "1">>, 2),
       Doc(7, <<"a", "1">>, 3), Doc(8, <<"a", "1">>, 4) >>
AccountRows ==
    << Account(c_alice, c_sports), Account(c_bob, c_news) >>
UserRow(u, ts, x) ==
    [a \in {"userId", "ts", "x"} |->
        CASE a = "userId" -> PStr(u) [] a = "ts" -> PInt(ts) [] OTHER -> PInt(x)]
UserRows ==
    << UserRow(c_alice, 150, 1), UserRow(c_bob, 100, 2), UserRow(c_alice, 100, 3) >>

\* DynamoHashResource on a hash-only table
AccountsTable ==
    [hname |-> "user", htype |-> "S", hasRange |-> FALSE, rname |-> "", rtype |-> "S",
     indexes |-> {}, fields |-> {StrField("user"), StrField("category")},
     rows |-> AccountRows]
\* DynamoHashRangeResource, numeric range key ts, index with full projection
EventsTable ==
    [hname |-> "user", htype |-> "S", hasRange |-> TRUE, rname |-> "ts", rtype |-> "N",
     indexes |-> {CategoryIndex("ALL")},
     fields |-> {StrField("user"), IntField("ts"), StrField("category"), IntField("x")},
     rows |-> EventRows]
\* the same with a keys-only index
EventsKeysTable ==
    [hname |-> "user", htype |-> "S", hasRange |-> TRUE, rname |-> "ts", rtype |-> "N",
     indexes |-> {CategoryIndex("KEYS_ONLY")},
     fields |-> {StrField("user"), IntField("ts"), StrField("category"), IntField("x")},
     rows |-> EventRows]
\* numeric range key not named ts, keys-only index
LogTable ==
    [hname |-> "user", htype |-> "S", hasRange |-> TRUE, rname |-> "seq", rtype |-> "N",
     indexes |-> {CategoryIndex("KEYS_ONLY")},
     fields |-> {StrField("user"), IntField("seq"), StrField("category")},
     rows |-> LogRows]
\* numeric hash key, string range key, no index
DocsTable ==
    [hname |-> "id", htype |-> "N", hasRange |-> TRUE, rname |-> "name", rtype |-> "S",
     indexes |-> {},
     fields |-> {IntField("id"), StrField("name"), IntField("x")},
     rows |-> DocRows]
\* a hash key whose name has an upper-case letter
UsersTable ==
    [hname |-> "userId", htype |-> "S", hasRange |-> TRUE, rname |-> "ts", rtype |-> "N",
     indexes |-> {},
     fields |-> {StrField("userId"), IntField("ts"), IntField("x")},
     rows |-> UserRows]

Tables == <<AccountsTable, EventsTable, EventsKeysTable, LogTable, DocsTable, UsersTable>>
TableIds == 1..Len(Tables)

\* every attribute name of some table: the names a filter key can start with
AttrNames == {"user", "ts", "category", "x", "seq", "id", "name", "userId"}

\* _get_range(): the RANGE field of the schema, or None
HasRange(t) == t.hasRange
\* self._meta.indexes: index name -> (indexed field, field name in the resource)
MetaIndexes(t) ==
    { [name |-> ix.name,
       field |-> ix.field,
       mapped |-> IF \E f \in t.fields : f.attribute = ix.field
                  THEN (CHOOSE f \in t.fields : f.attribute = ix.field).instance_name
                  ELSE ""] : ix \in t.indexes }

(***************************************************************************)
(* The store (boto's Table): query, scan, batch_get and get_item over the  *)
(* rows of the table.  Values are compared with their type: a number never *)
(* equals a string.  The store has no boolean: True is stored as 1.        *)
(***************************************************************************)
Enc(v) == IF v.k = "bool" THEN PInt(v.n) ELSE v

\* character order of str comparison (ASCII order of the characters used)
CharOrder == <<"*", "+", "-">> \o Digits \o Upper \o <<"_">> \o LowerLetters
Ord(c) == IF \E i \in 1..Len(CharOrder) : CharOrder[i] = c
          THEN CHOOSE i \in 1..Len(CharOrder) : CharOrder[i] = c
          ELSE 0
RECURSIVE StrLess(_, _)
StrLess(a, b) ==
    IF Len(b) = 0 THEN FALSE
    ELSE IF Len(a) = 0 THEN TRUE
    ELSE IF a[1] # b[1] THEN Ord(a[1]) < Ord(b[1])
    ELSE StrLess(Tail(a), Tail(b))
\* v < w on attribute values: numbers by value, strings by characters
Less(v, w) ==
    IF v.k = "str" /\ w.k = "str" THEN StrLess(v.s, w.s)
    ELSE IF v.k = "str" \/ w.k = "str" THEN w.k = "str"
    ELSE v.n < w.n

IsPrefix(p, s) == Len(p) <= Len(s) /\ SubSeq(s, 1, Len(p)) = p

\* one condition of a filter, <attr>__eq / __beginswith / __between, on a row
CondHolds(row, key, fv) ==
    \E a \in AttrNames :
        \/ /\ key = a \o "__eq"
           /\ a \in DOMAIN row
           /\ row[a] = Enc(fv[1])
        \/ /\ key = a \o "__beginswith"
           /\ a \in DOMAIN row
           /\ row[a].k = "str" /\ fv[1].k = "str"
           /\ IsPrefix(fv[1].s, row[a].s)
        \/ /\ key = a \o "__between"
           /\ a \in DOMAIN row
           /\ row[a].k = "int"
           /\ fv[1].n <= row[a].n /\ row[a].n <= fv[2].n
CondKeys(filt) == (DOMAIN filt) \ {"index", "exclusive_start_key"}
Matches(row, filt) == \A key \in CondKeys(filt) : CondHolds(row, key, filt[key])

KeyAttrs(t) == IF t.hasRange THEN {t.hname, t.rname} ELSE {t.hname}
KeyOf(t, row) == [a \in KeyAttrs(t) |-> row[a]]

\* stable insertion sort of rows by attribute a, descending when ~asc
RECURSIVE InsertRow(_, _, _, _)
InsertRow(sorted, row, a, asc) ==
    IF Len(sorted) = 0 THEN <<row>>
    ELSE LET last == sorted[Len(sorted)]
             before == IF asc THEN Less(row[a], last[a]) ELSE Less(last[a], row[a])
         IN IF before
            THEN InsertRow(SubSeq(sorted, 1, Len(sorted) - 1), row, a, asc) \o <<last>>
            ELSE sorted \o <<row>>
RECURSIVE SortBy(_, _, _)
SortBy(rows, a, asc) ==
    IF Len(rows) = 0 THEN <<>>
    ELSE InsertRow(SortBy(SubSeq(rows, 1, Len(rows) - 1), a, asc), rows[Len(rows)], a, asc)

RECURSIVE SelectRows(_, _)
SelectRows(rows, filt) ==
    IF Len(rows) = 0 THEN <<>>
    ELSE (IF Matches(rows[1], filt) THEN <<rows[1]>> ELSE <<>>) \o SelectRows(Tail(rows), filt)

Take(rows, limit) ==
    IF limit.k = "none" \/ limit.n >= Len(rows) THEN rows
    ELSE IF limit.n <= 0 THEN <<>>
    ELSE SubSeq(rows, 1, limit.n)

\* the rows after the exclusive start key; it has to name a stored row
EskKey(filt) ==
    LET esk == filt["exclusive_start_key"][1]
    IN [a \in DOMAIN esk |-> Enc(esk[a])]
EskKnown(t, rows, filt) ==
    \/ "exclusive_start_key" \notin DOMAIN filt
    \/ \E i \in 1..Len(rows) : KeyOf(t, rows[i]) = EskKey(filt)
AfterEsk(t, rows, filt) ==
    IF "exclusive_start_key" \notin DOMAIN filt THEN rows
    ELSE LET i == CHOOSE j \in 1..Len(rows) : KeyOf(t, rows[j]) = EskKey(filt)
         IN SubSeq(rows, i + 1, Len(rows))

\* what a result set holds once it was iterated: the rows, and _last_key_seen
\* (the key of the last row when the limit stopped the read, else None)
ResultSet(t, found, limit) ==
    LET got == Take(found, limit)
    IN [err |-> "",
        rows |-> got,
        last |-> IF limit.k # "none" /\ Len(got) > 0 /\ Len(got) = limit.n
                 THEN KeyOf(t, got[Len(got)]) ELSE EmptyDict]
StorageError == [err |-> "StorageError", rows |-> <<>>, last |-> EmptyDict]

IndexOf(t, filt) == CHOOSE ix \in t.indexes : ix.name = filt["index"][1].s[1]
\* a keys-only index returns the key attributes and the indexed attribute
Projected(t, filt, row) ==
    IF "index" \in DOMAIN filt /\ IndexOf(t, filt).projection_type = "KEYS_ONLY"
    THEN [a \in KeyAttrs(t) \cup {IndexOf(t, filt).field} |-> row[a]]
    ELSE row

\* table.query(limit=, reverse=, **filter): the rows of one hash key that
\* meet the conditions, in the order of the range key (of the index's key
\* when an index is named); reverse=True reads ascending (the boto bug the
\* code notes at the call)
StoreQuery(t, rows, filt, limit, reverse) ==
    LET byRange == IF t.hasRange THEN SortBy(rows, t.rname, reverse) ELSE rows
        ordered == IF "index" \in DOMAIN filt
                   THEN SortBy(byRange, IndexOf(t, filt).field, reverse)
                   ELSE byRange
        found == SelectRows(AfterEsk(t, ordered, filt), filt)
    IN IF ~EskKnown(t, rows, filt) THEN StorageError
       ELSE ResultSet(t, [i \in 1..Len(found) |-> Projected(t, filt, found[i])], limit)

\* table.scan(limit=, **filter): the rows that meet the conditions, in
\* storage order
StoreScan(t, rows, filt, limit) ==
    IF ~EskKnown(t, rows, filt) THEN StorageError
    ELSE ResultSet(t, SelectRows(AfterEsk(t, rows, filt), filt), limit)

\* table.batch_get(keys=): the full rows of the keys, in storage order; the
\* result set of a batch-get has no _last_key_seen
RECURSIVE RowsWithKeys(_, _, _)
RowsWithKeys(t, rows, keys) ==
    IF Len(rows) = 0 THEN <<>>
    ELSE (IF \E i \in 1..Len(keys) : keys[i] = KeyOf(t, rows[1]) THEN <<rows[1]>> ELSE <<>>)
         \o RowsWithKeys(t, Tail(rows), keys)
StoreBatchGet(t, rows, keys) ==
    [err |-> "", rows |-> RowsWithKeys(t, rows, keys), last |-> EmptyDict]

(***************************************************************************)
(* get_list, section by section.  q is request.GET (name -> str), kw the   *)
(* keyword arguments of the call (hash_key and range_key when the call     *)
(* comes from dispatch_detail).  The resources of the model declare no     *)
(* ToOneField, so the loop over ToOne relationships adds nothing.          *)
(***************************************************************************)
\* key.lower() of a parameter name
LowerName(nm) ==
    CASE nm = "userId" -> "userid"
      [] nm = "Limit" -> "limit"
      [] nm = "Reverse" -> "reverse"
      [] OTHER -> nm

\* keys made lower-case; 'true' / 'false' in any case become True / False
NormalizeParams(q) ==
    LET low == [k \in {LowerName(k0) : k0 \in DOMAIN q} |->
                   q[CHOOSE k0 \in DOMAIN q : LowerName(k0) = k]]
    IN [k \in DOMAIN low |->
           IF low[k].k = "str" /\ LowerStr(low[k].s) \in {TRUE_S, FALSE_S}
           THEN PBool(LowerStr(low[k].s) = TRUE_S)
           ELSE low[k]]

\* order_asc = not get_params.pop('reverse', False)
OrderAsc(np) == ~Truthy(Get(np, "reverse", PBool(FALSE)))

\* the hash-key filter: hkey_in_next, hash_key_filter and the __eq entry
HashKeyFilter(t, gp, kw) ==
    LET present == t.hname \in DOMAIN gp \/ "hash_key" \in DOMAIN kw
        value == Get(gp, t.hname, Get(kw, "hash_key", PNone))
    IN [hkey_in_next |-> present,
        hash_key_filter |-> IF present THEN value ELSE PNone,
        filt |-> IF present THEN Put(EmptyDict, t.hname \o "__eq", <<value>>) ELSE EmptyDict]

\* offset_special = int(get_params.get('offset_special', 0)) == 1
OffsetSpecialErr(gp) == IF CanInt(Get(gp, "offset_special", PInt(0))) THEN "" ELSE "ValueError"
OffsetSpecial(gp) == ToInt(Get(gp, "offset_special", PInt(0))) = 1

\* try: offset_range = int(...)  except: offset_range = 0
OffsetRange(gp) ==
    LET v == Get(gp, "offset_range", PInt(0))
    IN IF CanInt(v) THEN ToInt(v) ELSE 0

\* the exclusive start key
ExclusiveStartKey(t, gp) ==
    LET special == OffsetSpecial(gp)
        useHash == ~special /\ "offset_hash" \in DOMAIN gp
        useRange == t.hasRange /\ ~special /\ "offset_hash" \in DOMAIN gp
                    /\ "offset_range" \in DOMAIN gp
        hashErr == useHash /\ t.htype = "N" /\ ~CanInt(gp["offset_hash"])
        rangeErr == useRange /\ t.rtype = "N" /\ ~CanInt(gp["offset_range"])
        e1 == IF useHash THEN Put(EmptyDict, t.hname, gp["offset_hash"]) ELSE EmptyDict
        e2 == IF useRange
              THEN Put(e1, t.rname, IF t.rtype = "N" THEN PInt(ToInt(gp["offset_range"]))
                                    ELSE gp["offset_range"])
              ELSE e1
    IN [err |-> IF hashErr \/ rangeErr THEN "ValueError" ELSE "",
        esk |-> IF hashErr \/ rangeErr THEN EmptyDict ELSE e2]

\* filtering by range key: nothing for '*', __beginswith for a trailing '*',
\* else __eq
RangeKeyFilter(t, gp, kw, filt) ==
    IF ~(t.rname \in DOMAIN gp \/ "range_key" \in DOMAIN kw)
    THEN [err |-> "", filt |-> filt]
    ELSE IF "range_key" \notin DOMAIN kw
    THEN [err |-> "KeyError", filt |-> filt]
    ELSE LET value == Get(gp, t.rname, kw["range_key"])
         IN IF value = PStr(STAR) THEN [err |-> "", filt |-> filt]
            ELSE IF value.k # "str" THEN [err |-> "TypeError", filt |-> filt]
            ELSE IF Len(value.s) = 0 THEN [err |-> "IndexError", filt |-> filt]
            ELSE IF value.s[Len(value.s)] = "*"
            THEN [err |-> "",
                  filt |-> Put(filt, t.rname \o "__beginswith",
                               <<PStr(SubSeq(value.s, 1, Len(value.s) - 1))>>)]
            ELSE LET v1 == IF LowerStr(value.s) \in {TRUE_S, FALSE_S}
                           THEN PInt(IF LowerStr(value.s) = FALSE_S THEN 0 ELSE 1)
                           ELSE value
                 IN IF t.rtype = "N" /\ ~CanInt(v1)
                    THEN [err |-> "ValueError", filt |-> filt]
                    ELSE [err |-> "",
                          filt |-> Put(filt, t.rname \o "__eq",
                                       <<IF t.rtype = "N" THEN PInt(ToInt(v1)) ELSE v1>>)]

\* limit = 20 if 'limit' not in get_params else int(get_params['limit'])
DefaultLimit == 20
LimitErr(gp) == IF "limit" \in DOMAIN gp /\ ~CanInt(gp["limit"]) THEN "ValueError" ELSE ""
Limit(gp) == IF "limit" \in DOMAIN gp THEN ToInt(gp["limit"]) ELSE DefaultLimit

\* the parameters with '__from' in their name, and the attribute each names
FromParams(gp) == {k \in DOMAIN gp : \E a \in AttrNames : k = a \o "__from"}
FromAttr(k) == CHOOSE a \in AttrNames : k = a \o "__from"

\* the __between entries: one for each <attr>__from with a truthy <attr>__to
\* and two integers; on the index when <attr> is indexed; a failure of int()
\* is caught and the pair is dropped
BetweenFilter(t, gp, filt) ==
    LET ok == {a \in {FromAttr(k) : k \in FromParams(gp)} :
                  /\ Truthy(Get(gp, a \o "__to", PNone))
                  /\ CanInt(gp[a \o "__from"])
                  /\ CanInt(gp[a \o "__to"])}
        pair(a) == <<PInt(ToInt(gp[a \o "__from"])), PInt(ToInt(gp[a \o "__to"]))>>
        indexOf(a) == {ix \in MetaIndexes(t) : a \in {ix.field, ix.mapped}}
        indexed == {a \in ok : a # t.rname /\ indexOf(a) # {}}
        target(a) == IF a \in indexed THEN (CHOOSE ix \in indexOf(a) : TRUE).field ELSE a
        keys == {target(a) \o "__between" : a \in ok}
        withPairs == [k \in (DOMAIN filt) \cup keys |->
                         IF k \in keys
                         THEN pair(CHOOSE a \in ok : target(a) \o "__between" = k)
                         ELSE filt[k]]
    IN IF indexed = {} THEN withPairs
       ELSE Put(withPairs, "index",
                <<PName((CHOOSE ix \in indexOf(CHOOSE a \in indexed : TRUE) : TRUE).name)>>)

\* filtering by an indexed attribute: selects the index, converts the value
\* with the resource field's convert, __beginswith for a trailing '*'
FieldConvertErr(f, val) == f.conv = "int" /\ ~CanInt(val)
FieldConvert(f, val) == IF f.conv = "int" THEN PInt(ToInt(val)) ELSE PStr(Fmt(val))
IndexFilter(t, gp, filt) ==
    LET all_fields == UNION {{ix.field, ix.mapped} : ix \in MetaIndexes(t)}
        selected == (DOMAIN gp) \cap all_fields
    IN IF selected = {}
       THEN [err |-> "", filt |-> filt, index_field |-> "", index_range_field |-> ""]
       ELSE LET index_field == CHOOSE f \in selected : TRUE
                ix == CHOOSE i \in MetaIndexes(t) : index_field \in {i.field, i.mapped}
                fld == {f \in t.fields : f.instance_name = ix.mapped}
                f == CHOOSE x \in fld : TRUE
                raw == gp[index_field]
                val0 == IF raw.k = "str" /\ LowerStr(raw.s) \in {TRUE_S, FALSE_S}
                        THEN PInt(IF LowerStr(raw.s) = FALSE_S THEN 0 ELSE 1)
                        ELSE raw
                val == FieldConvert(f, val0)
                fail(e) == [err |-> e, filt |-> filt, index_field |-> index_field,
                            index_range_field |-> ""]
            IN IF fld = {} THEN fail("KeyError")
               ELSE IF FieldConvertErr(f, val0) THEN fail("ValueError")
               ELSE IF val.k = "str" /\ Len(val.s) = 0 THEN fail("IndexError")
               ELSE [err |-> "",
                     filt |-> Put(Put(filt, "index", <<PName(ix.name)>>),
                                  IF val.k = "str" /\ val.s[Len(val.s)] = "*"
                                  THEN ix.field \o "__beginswith"
                                  ELSE ix.field \o "__eq",
                                  IF val.k = "str" /\ val.s[Len(val.s)] = "*"
                                  THEN <<PStr(SubSeq(val.s, 1, Len(val.s) - 1))>>
                                  ELSE <<val>>),
                     index_field |-> index_field,
                     index_range_field |-> ix.field]

\* "If there are more than 2 conditions, we need to scan, not query":
\* the hybrid case keeps the query and takes the range key's __between out
\* of the filter; every other case scans and drops the index
PlanCount(filt) == IF "index" \in DOMAIN filt THEN Cardinality(DOMAIN filt) - 1 ELSE 0
\* Plan without the hybrid case: every filter over the threshold is scanned
Plan_ScanOnly(t, filt, limit) ==
    IF PlanCount(filt) > 2
    THEN [filt |-> Del(filt, "index"), query_filter |-> <<>>, limit |-> PInt(limit),
          force_scan |-> TRUE]
    ELSE [filt |-> filt, query_filter |-> <<>>, limit |-> PInt(limit), force_scan |-> FALSE]
Plan(t, filt, limit) ==
    LET rb == t.rname \o "__between"
    IN IF PlanCount(filt) > 2
       THEN IF rb \in DOMAIN filt /\ "index" \in DOMAIN filt
            THEN [filt |-> Del(filt, rb), query_filter |-> filt[rb], limit |-> PNone,
                  force_scan |-> FALSE]
            ELSE [filt |-> Del(filt, "index"), query_filter |-> <<>>, limit |-> PInt(limit),
                  force_scan |-> TRUE]
       ELSE [filt |-> filt, query_filter |-> <<>>, limit |-> PInt(limit), force_scan |-> FALSE]

\* the literal 1999999999999 of the code, "later than every timestamp"; the
\* integers of TLC have 32 bits, so the model writes the ten-digit number
TsSentinel == 1999999999

\* an index query on a table whose range key is 'ts', with no between on ts:
\* read everything, sort, cut
IsCutoff(t, plan) ==
    /\ t.rname # ""
    /\ "index" \in DOMAIN plan.filt
    /\ "ts__between" \notin DOMAIN plan.filt
    /\ plan.query_filter = <<>>
    /\ t.rname = "ts"

\* the rows of the hybrid path: those past offset_range and inside the
\* bounds, sorted by 'ts'
RECURSIVE PostFilter(_, _, _, _, _)
PostFilter(rows, rkey, offset_range, order_asc, qf) ==
    IF Len(rows) = 0 THEN <<>>
    ELSE LET val == ToInt(rows[1][rkey])
             first_filter == IF order_asc THEN val > offset_range ELSE val < offset_range
         IN (IF first_filter /\ val >= qf[1].n /\ val <= qf[2].n THEN <<rows[1]>> ELSE <<>>)
            \o PostFilter(Tail(rows), rkey, offset_range, order_asc, qf)

\* the query string of the 'next' URI, as (name, value) pairs
NextUri(t, gp, hk, order_asc, last, next_q, filt) ==
    LET last_hash_key == IF next_q # EmptyDict THEN filt[t.hname \o "__eq"][1]
                         ELSE last[t.hname]
        bounds == <<t.rname \o "__from", t.rname \o "__to", "offset_range">>
        qkeys == SelectSeq(bounds, LAMBDA k : k \in DOMAIN next_q)
        others == (DOMAIN next_q) \ {bounds[i] : i \in 1..3}
    IN <<<<"offset_hash", Fmt(last_hash_key)>>>>
       \o (IF hk.hkey_in_next THEN <<<<t.hname, Fmt(hk.hash_key_filter)>>>> ELSE <<>>)
       \o <<<<"reverse", IF order_asc THEN FALSE_S ELSE TRUE_S>>>>
       \o (IF next_q # EmptyDict
           THEN <<<<"offset_special", <<"1">>>>>>
                \o (IF others = {} THEN <<>>
                    ELSE LET o == CHOOSE x \in others : TRUE IN <<<<o, Fmt(next_q[o])>>>>)
                \o [i \in 1..Len(qkeys) |-> <<qkeys[i], Fmt(next_q[qkeys[i]])>>]
           ELSE <<<<"offset_range", Fmt(last[t.rname])>>>>
                \o (IF "limit" \in DOMAIN gp THEN <<<<"limit", Fmt(gp["limit"])>>>> ELSE <<>>))
       \o (IF "format" \in DOMAIN gp THEN <<<<"format", Fmt(gp["format"])>>>> ELSE <<>>)

\* a response: err is the exception that ended the request ("" when it
\* completed); op, filt, limit and asc are the store call that was made (op
\* "" when none was) and storeLast the _last_key_seen of its result; hybrid
\* and cutoff say which in-memory filter ran, query_filter with which bounds,
\* found how many rows it kept; batch says that batch_get was called, and
\* batch_keys with which keys
NoCall == [op |-> "", filt |-> EmptyDict, limit |-> PNone, asc |-> TRUE,
           hybrid |-> FALSE, cutoff |-> FALSE, query_filter |-> <<>>, batch |-> FALSE,
           batch_keys |-> <<>>, storeLast |-> EmptyDict]
Response(err, call, items, next) ==
    [err |-> err, op |-> call.op, filt |-> call.filt, limit |-> call.limit, asc |-> call.asc,
     hybrid |-> call.hybrid, cutoff |-> call.cutoff, query_filter |-> call.query_filter,
     batch |-> call.batch, batch_keys |-> call.batch_keys, storeLast |-> call.storeLast,
     found |-> 0,
     items |-> items, next |-> next]
Raise(err) == Response(err, NoCall, <<>>, <<>>)

\* the store call of the plan: scan, or query (an index query on a table
\* whose range key is 'ts' reads everything and cuts afterwards)
StoreCall(t, rows, hk, order_asc, offset_range0, plan) ==
    LET scan == plan.force_scan \/ ~Truthy(hk.hash_key_filter)
        cutoff_ts == ~scan /\ IsCutoff(t, plan)
        qlimit == IF scan THEN plan.limit ELSE IF cutoff_ts THEN PNone ELSE plan.limit
    IN [scan |-> scan,
        cutoff_ts |-> cutoff_ts,
        limit |-> qlimit,
        query_filter |-> IF cutoff_ts THEN <<PInt(0), PInt(TsSentinel)>>
                         ELSE plan.query_filter,
        offset_range |-> IF cutoff_ts THEN (IF order_asc THEN 0 ELSE TsSentinel)
                         ELSE offset_range0,
        res |-> IF scan THEN StoreScan(t, rows, plan.filt, qlimit)
                ELSE StoreQuery(t, rows, plan.filt, qlimit, order_asc)]

\* Hydrate without the batch-get: the rows of the query as they came
Hydrate_NoBatch(t, rows, plan, res) == [batch |-> FALSE, keys |-> <<>>, got |-> res]

\* a keys-only index gave keys: batch-get the items (when there are any)
Hydrate(t, rows, plan, res) ==
    LET keys_only_index == /\ ~plan.force_scan
                           /\ "index" \in DOMAIN plan.filt
                           /\ IndexOf(t, plan.filt).projection_type = "KEYS_ONLY"
        req == [i \in 1..Len(res.rows) |-> KeyOf(t, res.rows[i])]
    IN IF res.err = "" /\ keys_only_index /\ Len(req) > 0
       THEN [batch |-> TRUE, keys |-> req, got |-> StoreBatchGet(t, rows, req)]
       ELSE [batch |-> FALSE, keys |-> <<>>, got |-> res]

\* the store call a response reports
CallOf(order_asc, plan, sc, batch) ==
    [op |-> IF sc.scan THEN "scan" ELSE "query", filt |-> plan.filt, limit |-> sc.limit,
     asc |-> order_asc, hybrid |-> plan.query_filter # <<>>, cutoff |-> sc.cutoff_ts,
     query_filter |-> sc.query_filter, batch |-> batch, batch_keys |-> <<>>,
     storeLast |-> sc.res.last]

\* the hybrid path's page: the filtered rows sorted by 'ts' and cut to the
\* limit, and the parameters of the 'next' URI when rows are left over.  An
\* item answers None for an attribute it has not: rows without 'ts' all sort
\* equal (the sort is stable and keeps their order) and int(None) raises
HybridPage(t, gp, order_asc, real_limit, xf, plan, sc, kept) ==
    LET has_ts == \A i \in 1..Len(kept) : "ts" \in DOMAIN kept[i]
        sorted == IF has_ts THEN SortBy(kept, "ts", order_asc) ELSE kept
        cut == Take(sorted, real_limit)
        lastTs == PInt(ToInt(cut[Len(cut)]["ts"]))
        bounds == IF sc.cutoff_ts
                  THEN IF order_asc THEN <<lastTs, PInt(TsSentinel)>> ELSE <<PInt(0), lastTs>>
                  ELSE <<gp[t.rname \o "__from"], gp[t.rname \o "__to"]>>
        fail(e) == [err |-> e, items |-> <<>>, next_q |-> EmptyDict, found |-> Len(kept)]
    IN IF Len(sorted) <= real_limit.n
       THEN [err |-> "", items |-> sorted, next_q |-> EmptyDict, found |-> Len(kept)]
       ELSE IF xf.index_range_field = "" THEN fail("TypeError")
       ELSE IF (xf.index_range_field \o "__eq") \notin DOMAIN plan.filt THEN fail("KeyError")
       ELSE IF Len(cut) = 0 THEN fail("IndexError")
       ELSE IF ~has_ts THEN fail("TypeError")
       ELSE [err |-> "",
             items |-> cut,
             found |-> Len(kept),
             next_q |-> Put(Put(Put(Put(EmptyDict,
                            xf.index_field, plan.filt[xf.index_range_field \o "__eq"][1]),
                            t.rname \o "__from", bounds[1]),
                            t.rname \o "__to", bounds[2]),
                            "offset_range", lastTs)]

\* sort by the range key, cut to the limit, build the 'next' URI
Finish(t, gp, hk, order_asc, real_limit, plan, call, page, last) ==
    IF page.err # "" THEN Response(page.err, call, <<>>, <<>>)
    ELSE [Response("", call,
                   Take(SortBy(page.items, t.rname, order_asc), real_limit),
                   IF last = EmptyDict /\ page.next_q = EmptyDict THEN <<>>
                   ELSE NextUri(t, gp, hk, order_asc, last, page.next_q, plan.filt))
          EXCEPT !.found = page.found]

Reconcile(t, rows, gp, hk, order_asc, real_limit, xf, plan, sc, hy) ==
    IF sc.res.err # ""
    THEN Response(sc.res.err, CallOf(order_asc, plan, sc, FALSE), <<>>, <<>>)
    ELSE Finish(t, gp, hk, order_asc, real_limit, plan,
                [CallOf(order_asc, plan, sc, hy.batch) EXCEPT !.batch_keys = hy.keys],
                IF sc.query_filter # <<>>
                THEN HybridPage(t, gp, order_asc, real_limit, xf, plan, sc,
                                PostFilter(hy.got.rows, t.rname, sc.offset_range, order_asc,
                                           sc.query_filter))
                ELSE [err |-> "", items |-> hy.got.rows, next_q |-> EmptyDict, found |-> 0],
                hy.got.last)

Fetch(t, rows, gp, hk, order_asc, real_limit, xf, plan, sc) ==
    Reconcile(t, rows, gp, hk, order_asc, real_limit, xf, plan, sc,
              Hydrate(t, rows, plan, sc.res))

\* from the plan to the response
Planned(t, rows, gp, hk, order_asc, offset_range0, limit, xf, plan) ==
    Fetch(t, rows, gp, hk, order_asc, PInt(limit), xf, plan,
          StoreCall(t, rows, hk, order_asc, offset_range0, plan))

Execute(t, rows, gp, hk, order_asc, offset_range0, limit, xf) ==
    Planned(t, rows, gp, hk, order_asc, offset_range0, limit, xf, Plan(t, xf.filt, limit))

get_list(t, rows, q, kw) ==
    LET np == NormalizeParams(q)
        order_asc == OrderAsc(np)
        gp == Del(np, "reverse")
        hk == HashKeyFilter(t, gp, kw)
        ek == ExclusiveStartKey(t, gp)
        rf == RangeKeyFilter(t, gp, kw, hk.filt)
        withEsk == IF ek.esk # EmptyDict
                   THEN Put(rf.filt, "exclusive_start_key", <<ek.esk>>)
                   ELSE rf.filt
        filtering == Truthy(hk.hash_key_filter)
        xf == IF filtering THEN IndexFilter(t, gp, BetweenFilter(t, gp, withEsk))
              ELSE [err |-> "", filt |-> withEsk, index_field |-> "", index_range_field |-> ""]
    IN IF ~HasRange(t) THEN Raise("AttributeError")
       ELSE IF OffsetSpecialErr(gp) # "" THEN Raise(OffsetSpecialErr(gp))
       ELSE IF ek.err # "" THEN Raise(ek.err)
       ELSE IF rf.err # "" THEN Raise(rf.err)
       ELSE IF LimitErr(gp) # "" THEN Raise(LimitErr(gp))
       ELSE IF xf.err # "" THEN Raise(xf.err)
       ELSE Execute(t, rows, gp, hk, order_asc, OffsetRange(gp), Limit(gp), xf)

\* table.get_item(**filter): the row of the key, or an item without values
StoreGetItem(t, rows, key) ==
    LET hit == SelectSeq(rows, LAMBDA r : KeyOf(t, r) = key)
    IN IF Len(hit) = 0 THEN EmptyDict ELSE hit[1]

\* get_dynamo_filter and obj_get: the item of the primary key, or Http404
get_dynamo_filter(t, kw) ==
    IF HasRange(t)
    THEN Put(Put(EmptyDict, t.hname, kw["hash_key"]), t.rname, kw["range_key"])
    ELSE Put(EmptyDict, t.hname, kw["hash_key"])
obj_get(t, rows, kw) ==
    LET filt == get_dynamo_filter(t, kw)
        item == StoreGetItem(t, rows, filt)
        call == [NoCall EXCEPT !.op = "get_item"]
    IN IF item = EmptyDict THEN Response("Http404", call, <<>>, <<>>)
       ELSE Response("", call, <<item>>, <<>>)

\* dispatch_detail: the keys of the URI in the type of the schema; a range
\* key ending in '*' is answered by get_list
KeyTypeErr(type, v) == type = "N" /\ ~CanInt(v)
KeyType(type, v) == IF type = "N" THEN PInt(ToInt(v)) ELSE PStr(Fmt(v))
dispatch_detail(t, rows, q, kw) ==
    IF KeyTypeErr(t.htype, kw["hash_key"]) THEN Raise("ValueError")
    ELSE LET k1 == Put(kw, "hash_key", KeyType(t.htype, kw["hash_key"]))
             rk == kw["range_key"]
         IN IF ~HasRange(t) THEN obj_get(t, rows, k1)
            ELSE IF rk.k = "str" /\ Len(rk.s) > 0 /\ rk.s[Len(rk.s)] = "*"
            THEN get_list(t, rows, q, k1)
            ELSE IF KeyTypeErr(t.rtype, rk) THEN Raise("ValueError")
            ELSE obj_get(t, rows, Put(k1, "range_key", KeyType(t.rtype, rk)))

(***************************************************************************)
(* The write path.  data is the deserialized body of the request: the      *)
(* attributes the bundle's object gets (the resources declare no default   *)
(* values, so full_hydrate adds nothing).                                  *)
(***************************************************************************)
\* an item as the store keeps it
EncItem(item) == [a \in DOMAIN item |-> Enc(item[a])]
HasKey(t, item) == KeyAttrs(t) \subseteq DOMAIN item
KeyStored(t, rows, item) == \E i \in 1..Len(rows) : KeyOf(t, rows[i]) = KeyOf(t, EncItem(item))

\* table.put_item(item, overwrite=) / item.save(overwrite=True): the item
\* replaces the stored item of its key; without overwrite the key has to be
\* new
StorePutItem(t, rows, item, overwrite) ==
    IF ~HasKey(t, item) THEN [err |-> "StorageError", rows |-> rows]
    ELSE IF ~KeyStored(t, rows, item)
    THEN [err |-> "", rows |-> Append(rows, EncItem(item))]
    ELSE IF ~overwrite THEN [err |-> "ConditionalCheckFailedException", rows |-> rows]
    ELSE [err |-> "",
          rows |-> [i \in 1..Len(rows) |->
                       IF KeyOf(t, rows[i]) = KeyOf(t, EncItem(item)) THEN EncItem(item)
                       ELSE rows[i]]]

\* WriteItem with put_item's default: never overwrite
WriteItem_NoOverwrite(t, rows, item, primary_keys, force_put) ==
    StorePutItem(t, rows, item, FALSE)

\* "if there are keys, this is an update, else it's new"
WriteItem(t, rows, item, primary_keys, force_put) ==
    IF primary_keys = EmptyDict \/ force_put
    THEN StorePutItem(t, rows, item, force_put)
    ELSE StorePutItem(t, rows, item, TRUE)

\* the item the attributes of the bundle are added to: nothing for a new
\* item, the primary keys for a PUT, else the stored item (Http404 when
\* there is none)
BaseItem(t, rows, primary_keys, force_put) ==
    IF primary_keys = EmptyDict THEN [err |-> "", item |-> EmptyDict]
    ELSE IF force_put THEN [err |-> "", item |-> get_dynamo_filter(t, primary_keys)]
    ELSE LET item == StoreGetItem(t, rows, get_dynamo_filter(t, primary_keys))
         IN IF item = EmptyDict THEN [err |-> "Http404", item |-> EmptyDict]
            ELSE [err |-> "", item |-> item]

_dynamo_update_or_insert(t, rows, data, primary_keys, force_put) ==
    LET base == BaseItem(t, rows, primary_keys, force_put)
        attrs == {a \in DOMAIN data : data[a] # PNone}
        item == [a \in (DOMAIN base.item) \cup attrs |->
                    IF a \in attrs THEN data[a] ELSE base.item[a]]
        put == WriteItem(t, rows, item, primary_keys, force_put)
    IN IF base.err # "" THEN [err |-> base.err, rows |-> rows, item |-> EmptyDict]
       ELSE IF put.err # "" THEN [err |-> put.err, rows |-> rows, item |-> EmptyDict]
       ELSE [err |-> "", rows |-> put.rows, item |-> item]

obj_update(t, rows, kw, data) == _dynamo_update_or_insert(t, rows, data, kw, TRUE)
obj_create(t, rows, data) == _dynamo_update_or_insert(t, rows, data, EmptyDict, FALSE)

\* patch_detail: update; on NotFound or MultipleObjectsReturned, create
patch_detail(t, rows, kw, data) ==
    LET updated == _dynamo_update_or_insert(t, rows, data, kw, FALSE)
    IN IF updated.err \in {"NotFound", "MultipleObjectsReturned"}
       THEN obj_create(t, rows, data)
       ELSE updated

\* the keys of the URI as dispatch_detail hands them to the method
TypedKeys(t, kw) ==
    IF HasRange(t)
    THEN Put(Put(EmptyDict, "hash_key", KeyType(t.htype, kw["hash_key"])),
             "range_key", KeyType(t.rtype, kw["range_key"]))
    ELSE Put(EmptyDict, "hash_key", KeyType(t.htype, kw["hash_key"]))

\* the response of a write
Written(r, op) ==
    IF r.err # "" THEN Raise(r.err)
    ELSE Response("", [NoCall EXCEPT !.op = op], <<r.item>>, <<>>)

(***************************************************************************)
(* The requests of the clients: for each table, the query strings and URI  *)
(* keys the model draws from.                                              *)
(***************************************************************************)
D1(k, v) == Put(EmptyDict, k, PStr(v))
D2(k1, v1, k2, v2) == Put(D1(k1, v1), k2, PStr(v2))
Merge(a, b) == [k \in (DOMAIN a) \cup (DOMAIN b) |-> IF k \in DOMAIN b THEN b[k] ELSE a[k]]

c_abc == <<"a", "b", "c">>
\* the hash key values of the requests: a stored one and another stored one
HashVal(t) == IF t.htype = "N" THEN <<"7">> ELSE c_alice
OtherHashVal(t) == IF t.htype = "N" THEN <<"8">> ELSE c_bob
\* range key values: a stored value and a prefix
RangeVals(t) ==
    CASE t.rname = "ts" -> {<<"1", "5", "0">>, <<"1", "*">>}
      [] t.rname = "seq" -> {<<"2">>, <<"1", "*">>}
      [] t.rname = "name" -> {<<"a", "1">>, <<"a", "*">>}
      [] OTHER -> {}
\* <attr>__from / <attr>__to on the range key
RangeBounds(t) ==
    CASE t.rname = "ts" -> {<<<<"1", "0", "0">>, <<"2", "0", "0">>>>,
                            <<<<"0">>, <<"1", "5", "0">>>>,
                            <<c_abc, <<"2", "0", "0">>>>}
      [] t.rname = "seq" -> {<<<<"1">>, <<"4">>>>}
      [] OTHER -> {}
\* the key of a stored row, for offset_hash / offset_range
OffsetKey(t) ==
    CASE t.rname = "ts" -> <<c_alice, <<"1", "0", "0">>>>
      [] t.rname = "seq" -> <<c_alice, <<"1">>>>
      [] t.rname = "name" -> <<<<"7">>, <<"a", "1">>>>
      [] OTHER -> <<c_alice, <<"1">>>>

HashChoices(t) == {EmptyDict, D1(t.hname, HashVal(t))}
\* a boolean-looking value, in mixed case
c_True == <<"T", "r", "u", "e">>
RangeChoices(t) ==
    {EmptyDict} \cup {D1(t.rname, v) : v \in RangeVals(t)}
                \cup (IF t.hasRange THEN {D1(t.rname, FALSE_S)} ELSE {})
IndexChoices(t) ==
    {EmptyDict} \cup UNION {{D1(ix.field, c_sports), D1(ix.field, <<"s", "*">>),
                             D1(ix.field, c_True)} : ix \in t.indexes}
BoundChoices(t) ==
    {EmptyDict} \cup {D2(t.rname \o "__from", b[1], t.rname \o "__to", b[2]) : b \in RangeBounds(t)}
\* a range predicate on x, which no table has as range key or in an index
OtherBoundChoices == {EmptyDict, D2("x__from", <<"1">>, "x__to", <<"9">>)}
ReverseChoices == {EmptyDict, D1("reverse", TRUE_S)}
LimitChoices == {EmptyDict} \cup {D1("limit", IntStr(n)) : n \in 1..MaxLimit}
OffsetChoices(t) ==
    {EmptyDict,
     D2("offset_hash", OffsetKey(t)[1], "offset_range", OffsetKey(t)[2]),
     D2("offset_hash", IF t.htype = "N" THEN c_abc ELSE OffsetKey(t)[1],
        "offset_range", IF t.htype = "N" THEN OffsetKey(t)[2] ELSE c_abc),
     D2("offset_special", <<"1">>, "offset_range", OffsetKey(t)[2]),
     D2("offset_special", <<"1">>, "offset_range", c_abc)}

\* request.GET of the requests to the list endpoint
ListQueries(t) ==
    { Merge(h, Merge(r, Merge(i, Merge(b, Merge(x, Merge(v, Merge(l, o))))))) :
        h \in HashChoices(t), r \in RangeChoices(t), i \in IndexChoices(t),
        b \in BoundChoices(t), x \in OtherBoundChoices, v \in ReverseChoices,
        l \in LimitChoices, o \in OffsetChoices(t) }

\* the keys of a detail URI: <hash_key><delimiter><range_key>
PathKeys(t) ==
    IF ~t.hasRange THEN {Put(EmptyDict, "hash_key", PStr(HashVal(t)))}
    ELSE {Put(Put(EmptyDict, "hash_key", PStr(HashVal(t))), "range_key", PStr(rk)) :
             rk \in {STAR} \cup RangeVals(t)}
\* request.GET of the requests to a detail URI
DetailQueries(t) ==
    { Merge(h, Merge(r, Merge(b, Merge(x, Merge(v, l))))) :
        h \in {EmptyDict, D1(t.hname, OtherHashVal(t))}, r \in RangeChoices(t),
        b \in BoundChoices(t), x \in OtherBoundChoices,
        v \in ReverseChoices, l \in LimitChoices }

\* request.GET of the request a 'next' URI describes
RECURSIVE ParseQuery(_)
ParseQuery(pairs) ==
    IF Len(pairs) = 0 THEN EmptyDict
    ELSE Put(ParseQuery(SubSeq(pairs, 1, Len(pairs) - 1)),
             pairs[Len(pairs)][1], PStr(pairs[Len(pairs)][2]))

\* the keys of the detail URIs that are written to: the key of a stored
\* item and a key that is not stored
MissingKey(t) ==
    CASE t.rname = "ts" -> <<c_alice, <<"7">>>>
      [] t.rname = "seq" -> <<c_alice, <<"9">>>>
      [] t.rname = "name" -> <<<<"9">>, <<"a", "1">>>>
      [] OTHER -> <<<<"c", "a", "r", "o", "l">>, <<"1">>>>
WriteKeys(t) ==
    { IF t.hasRange
      THEN Put(Put(EmptyDict, "hash_key", PStr(k[1])), "range_key", PStr(k[2]))
      ELSE Put(EmptyDict, "hash_key", PStr(k[1])) : k \in {OffsetKey(t), MissingKey(t)} }
\* the bodies of the writes: no attribute, or one attribute that is no key
WriteData(t) ==
    IF \E f \in t.fields : f.attribute = "category"
    THEN {EmptyDict, Put(EmptyDict, "category", PStr(c_news)),
          Put(EmptyDict, "category", PStr(c_sports))}
    ELSE {EmptyDict, Put(EmptyDict, "x", PInt(1)), Put(EmptyDict, "x", PInt(2))}
\* the bodies of a POST: the key of the item and an attribute
CreateData(t) ==
    { Merge(get_dynamo_filter(t, TypedKeys(t, kw)), d) : kw \in WriteKeys(t), d \in WriteData(t) }

(***************************************************************************)
(* The state: the table of the resource, its rows, the last request and    *)
(* its response, and, when the request came from a 'next' URI, the request *)
(* and the response that URI was in; origin is the request the client      *)
(* started from and seen the items of all the pages it got since.          *)
(***************************************************************************)
VARIABLES tab, store, req, resp, prev, pages, origin, seen

vars == <<tab, store, req, resp, prev, pages, origin, seen>>

T == Tables[tab]
NoRequest == [via |-> "none", q |-> EmptyDict, kw |-> EmptyDict]
NoPrev == [req |-> NoRequest, resp |-> Raise("")]

Init ==
    /\ tab \in TableIds
    /\ store = Tables[tab].rows
    /\ req = NoRequest
    /\ resp = Raise("")
    /\ prev = NoPrev
    /\ pages = 0
    /\ origin = NoRequest
    /\ seen = <<>>

\* GET on the list endpoint
ListRequest ==
    /\ req.via = "none"
    /\ \E q \in ListQueries(T) :
        /\ req' = [via |-> "list", q |-> q, kw |-> EmptyDict]
        /\ resp' = get_list(T, store, q, EmptyDict)
        /\ prev' = NoPrev
        /\ pages' = 0
        /\ origin' = req'
        /\ seen' = resp'.items
        /\ UNCHANGED <<tab, store>>

\* GET on a detail URI
DetailRequest ==
    /\ req.via = "none"
    /\ \E q \in DetailQueries(T), kw \in PathKeys(T) :
        /\ req' = [via |-> "detail", q |-> q, kw |-> kw]
        /\ resp' = dispatch_detail(T, store, q, kw)
        /\ prev' = NoPrev
        /\ pages' = 0
        /\ origin' = req'
        /\ seen' = resp'.items
        /\ UNCHANGED <<tab, store>>

\* GET on the 'next' URI of the last response
FollowNext ==
    /\ req.via # "none"
    /\ resp.err = ""
    /\ resp.next # <<>>
    /\ pages < MaxPages
    /\ req' = [via |-> "next", q |-> ParseQuery(resp.next), kw |-> EmptyDict]
    /\ resp' = get_list(T, store, ParseQuery(resp.next), EmptyDict)
    /\ prev' = [req |-> req, resp |-> resp]
    /\ pages' = pages + 1
    /\ seen' = seen \o resp'.items
    /\ UNCHANGED origin
    /\ UNCHANGED <<tab, store>>

\* the client is done with the response; the next request is a new one
Forget ==
    /\ req.via # "none"
    /\ req' = NoRequest
    /\ resp' = Raise("")
    /\ prev' = NoPrev
    /\ pages' = 0
    /\ origin' = NoRequest
    /\ seen' = <<>>
    /\ UNCHANGED <<tab, store>>

Next == ListRequest \/ DetailRequest \/ FollowNext \/ Forget

Spec == Init /\ [][Next]_vars

\* whether the key of the URI names a stored item
Existed(kw) == StoreGetItem(T, store, get_dynamo_filter(T, TypedKeys(T, kw))) # EmptyDict

\* PUT on a detail URI: obj_update
PutDetail ==
    \E kw \in WriteKeys(T), data \in WriteData(T) :
        LET r == obj_update(T, store, TypedKeys(T, kw), data)
        IN /\ req' = [via |-> "put", q |-> data, kw |-> TypedKeys(T, kw), existed |-> Existed(kw)]
           /\ resp' = Written(r, "put_item")
           /\ store' = r.rows
           /\ prev' = NoPrev
           /\ pages' = 0
           /\ UNCHANGED <<tab, origin, seen>>

\* PATCH on a detail URI
PatchDetail ==
    \E kw \in WriteKeys(T), data \in WriteData(T) :
        LET r == patch_detail(T, store, TypedKeys(T, kw), data)
        IN /\ req' = [via |-> "patch", q |-> data, kw |-> TypedKeys(T, kw), existed |-> Existed(kw)]
           /\ resp' = Written(r, "save")
           /\ store' = r.rows
           /\ prev' = NoPrev
           /\ pages' = 0
           /\ UNCHANGED <<tab, origin, seen>>

\* POST on the list endpoint: obj_create
PostList ==
    \E data \in CreateData(T) :
        LET r == obj_create(T, store, data)
        IN /\ req' = [via |-> "post", q |-> data, kw |-> EmptyDict, existed |-> FALSE]
           /\ resp' = Written(r, "put_item")
           /\ store' = r.rows
           /\ prev' = NoPrev
           /\ pages' = 0
           /\ UNCHANGED <<tab, origin, seen>>

\* the requests that write, one after the other
WriteNext == PutDetail \/ PatchDetail \/ PostList

WriteSpec == Init /\ [][WriteNext]_vars

(***************************************************************************)
(* What the properties below read off a state.                             *)
(***************************************************************************)
\* the request was answered by get_list: a list request, a 'next' request,
\* or a detail URI whose range key ends in '*' on a table with a range key
IsWild(v) == v.k = "str" /\ Len(v.s) > 0 /\ v.s[Len(v.s)] = "*"
ViaGetList ==
    \/ req.via \in {"list", "next"}
    \/ /\ req.via = "detail"
       /\ T.hasRange
       /\ ~KeyTypeErr(T.htype, req.kw["hash_key"])
       /\ IsWild(req.kw["range_key"])
\* the page size the request asks for
PageLimit(q) == IF "limit" \in DOMAIN q THEN ToInt(q["limit"]) ELSE DefaultLimit
\* the request carries no offset parameter: it asks for a first page
FirstPage(q) == (DOMAIN q) \cap {"offset_hash", "offset_range", "offset_special"} = {}
\* the name of a parameter of the 'next' URI is nm
NextHas(nm, val) == \E i \in 1..Len(resp.next) : resp.next[i] = <<nm, val>>

\* C1: on a table with a hash key and no range key, a list request whose
\* only filter is an equality on the hash key completes without error and is
\* executed as a store query on that hash value with no index (never a scan,
\* never an error)
C1_HashOnlyListIsDirectQuery ==
    (/\ req.via = "list"
     /\ ~T.hasRange
     /\ T.hname \in DOMAIN req.q
     /\ DOMAIN req.q \subseteq {T.hname, "limit"})
    => /\ resp.err = ""
       /\ resp.op = "query"
       /\ resp.filt = Put(EmptyDict, T.hname \o "__eq", <<req.q[T.hname]>>)

\* the conditions of a filter besides the equality on the hash key
FurtherPredicates(filt) == CondKeys(filt) \ {T.hname \o "__eq"}

\* C2: a request answered by get_list whose filter holds the hash-key
\* equality and more than two further predicates, and which is not the
\* hybrid case, is executed as a scan and never as a query, with or without
\* a secondary index
C2_ManyPredicatesScan ==
    (/\ ViaGetList
     /\ resp.err = ""
     /\ (T.hname \o "__eq") \in DOMAIN resp.filt
     /\ Cardinality(FurtherPredicates(resp.filt)) > 2
     /\ ~resp.hybrid)
    => resp.op = "scan"

\* C3: the request of a 'next' URI has the predicates of the request the URI
\* came from (the same conditions in the filter, the same bounds of the
\* in-memory filter, the same direction) besides the continuation point, is
\* executed with the same plan shape, and returns only rows that match the
\* original filter and were not returned before
C3_NextUriRoundTrip ==
    (req.via = "next")
    => /\ resp.err = ""
       /\ resp.op = prev.resp.op
       /\ resp.hybrid = prev.resp.hybrid
       /\ resp.asc = prev.resp.asc
       /\ CondKeys(resp.filt) = CondKeys(prev.resp.filt)
       /\ \A c \in CondKeys(prev.resp.filt) : resp.filt[c] = prev.resp.filt[c]
       /\ ("index" \in DOMAIN resp.filt) = ("index" \in DOMAIN prev.resp.filt)
       /\ (prev.resp.hybrid => resp.query_filter = prev.resp.query_filter)
       /\ \A i \in 1..Len(resp.items) :
            /\ Matches(resp.items[i], prev.resp.filt)
            /\ (prev.resp.hybrid =>
                    /\ prev.resp.query_filter[1].n <= resp.items[i][T.rname].n
                    /\ resp.items[i][T.rname].n <= prev.resp.query_filter[2].n)
            /\ \A j \in 1..Len(prev.resp.items) : resp.items[i] # prev.resp.items[j]

\* the scenario of C4: a string hash key, the numeric range key ts, an index
\* on category; the request asks for alice, 100 <= ts <= 200, category sports
c_100 == <<"1", "0", "0">>
c_200 == <<"2", "0", "0">>
ScenarioTable ==
    /\ T.htype = "S" /\ T.hasRange /\ T.rname = "ts" /\ T.rtype = "N"
    /\ \E ix \in T.indexes : ix.field = "category"
ScenarioRequest ==
    /\ req.via = "list"
    /\ {T.hname, "ts__from", "ts__to", "category"} \subseteq DOMAIN req.q
    /\ DOMAIN req.q \subseteq {T.hname, "ts__from", "ts__to", "category", "limit"}
    /\ req.q[T.hname] = PStr(c_alice)
    /\ req.q["ts__from"] = PStr(c_100)
    /\ req.q["ts__to"] = PStr(c_200)
    /\ req.q["category"] = PStr(c_sports)
\* the stored rows the scenario asks for, ascending by ts
ScenarioRows ==
    SortBy(SelectSeq(store, LAMBDA r : /\ r[T.hname] = PStr(c_alice)
                                       /\ r["category"] = PStr(c_sports)
                                       /\ 100 <= r["ts"].n /\ r["ts"].n <= 200),
           "ts", TRUE)

HybridCandidates ==
    SelectSeq(SelectRows(store, resp.filt),
              LAMBDA r : /\ resp.query_filter[1].n <= r[T.rname].n
                         /\ r[T.rname].n <= resp.query_filter[2].n)

\* C5: on the hybrid path, for a first page and either direction, the items
\* are exactly the first pageLimit rows, in the order of the table's range
\* key, of the rows of the inner query with lower <= v <= upper
C5_HybridFirstPage ==
    (ViaGetList /\ resp.hybrid /\ FirstPage(req.q))
    => /\ resp.err = ""
       /\ resp.items = Take(SortBy(HybridCandidates, T.rname, resp.asc),
                            PInt(PageLimit(req.q)))

\* C6: the 'next' URI is none exactly when the store's query or scan
\* reported no continuation key and, on the hybrid path, the in-memory
\* filter found fewer rows than pageLimit
C6_NextNoneIff ==
    (ViaGetList /\ resp.err = "" /\ resp.op \in {"query", "scan"})
    => ((resp.next = <<>>)
        <=> /\ resp.storeLast = EmptyDict
            /\ ((resp.hybrid \/ resp.cutoff) => resp.found < PageLimit(req.q)))

\* C7: a detail URI whose range key is exactly '*' puts no condition on the
\* range key in the filter and returns what the list request for the same
\* hash key, with no range-key parameter, returns
C7_StarIsNoRangeFilter ==
    (/\ req.via = "detail"
     /\ T.hasRange
     /\ req.kw["range_key"] = PStr(STAR)
     /\ DOMAIN req.q \subseteq {"limit", "reverse"})
    => LET list == get_list(T, store, Put(req.q, T.hname, req.kw["hash_key"]), EmptyDict)
       IN /\ \A c \in DOMAIN resp.filt :
                c \notin {T.rname \o "__eq", T.rname \o "__beginswith", T.rname \o "__between"}
          /\ resp.err = list.err
          /\ resp.items = list.items

\* C8: when a key comes both in the path and as a query parameter, the
\* filter's condition on it is the one of the path's value, for the hash key
\* and for the range key; and a range-key query parameter without a range
\* key in the path is accepted
C8_PathParameterWins ==
    /\ (/\ req.via = "detail" /\ ViaGetList /\ resp.err = ""
        /\ T.hname \in DOMAIN req.q)
       => resp.filt[T.hname \o "__eq"] = <<KeyType(T.htype, req.kw["hash_key"])>>
    /\ (/\ req.via = "detail" /\ ViaGetList /\ resp.err = ""
        /\ T.rname \in DOMAIN req.q
        /\ req.kw["range_key"] # PStr(STAR))
       => /\ (T.rname \o "__eq") \notin DOMAIN resp.filt
          /\ (T.rname \o "__beginswith") \in DOMAIN resp.filt
          /\ resp.filt[T.rname \o "__beginswith"]
               = <<PStr(SubSeq(req.kw["range_key"].s, 1, Len(req.kw["range_key"].s) - 1))>>
    /\ (/\ req.via = "list" /\ T.hasRange
        /\ T.rname \in DOMAIN req.q
        /\ DOMAIN req.q \subseteq {T.hname, T.rname, "limit", "reverse"})
       => resp.err = ""

\* the attribute is the range key of the table or the attribute of an index
Rangeable(a) == a = T.rname \/ \E ix \in T.indexes : ix.field = a
\* the attributes the request asks a range predicate on
BetweenAttrs(q) == {a \in AttrNames : {a \o "__from", a \o "__to"} \subseteq DOMAIN q}

\* C9: a request with <attr>__from and <attr>__to on an attribute that is
\* neither the range key nor indexed, or with a bound that is no integer, is
\* rejected: it ends with an error, and no store call is made
C9_BetweenRejected ==
    (/\ ViaGetList
     /\ req.via # "next"
     /\ \E a \in BetweenAttrs(req.q) :
            \/ ~Rangeable(a)
            \/ ~CanInt(req.q[a \o "__from"])
            \/ ~CanInt(req.q[a \o "__to"]))
    => (resp.err # "" /\ resp.op = "")

\* C10: a request whose offset_hash or offset_range is no number where the
\* key is numeric is rejected, with or without offset_special=1
C10_BadOffsetRejected ==
    (/\ ViaGetList
     /\ \/ /\ T.htype = "N" /\ "offset_hash" \in DOMAIN req.q
           /\ ~CanInt(req.q["offset_hash"])
        \/ /\ T.hasRange /\ T.rtype = "N" /\ "offset_range" \in DOMAIN req.q
           /\ ~CanInt(req.q["offset_range"]))
    => (resp.err # "" /\ resp.op = "")

\* the scalar type the schema declares: the Python type of a key's value
TypeOf(type) == IF type = "N" THEN "int" ELSE "str"

\* C11: the exclusive start key handed to the store holds the hash value and
\* the range value in the type the schema declares for the key: an int for a
\* numeric key, a str for a string key
C11_EskTyped ==
    (ViaGetList /\ "exclusive_start_key" \in DOMAIN resp.filt)
    => LET esk == resp.filt["exclusive_start_key"][1]
       IN /\ T.hname \in DOMAIN esk
          /\ esk[T.hname].k = TypeOf(T.htype)
          /\ (T.rname \in DOMAIN esk => esk[T.rname].k = TypeOf(T.rtype))

\* 'true' or 'false' in any letter case
BoolLike(v) == v.k = "str" /\ LowerStr(v.s) \in {TRUE_S, FALSE_S}
BoolInt(v) == PInt(IF LowerStr(v.s) = TRUE_S THEN 1 ELSE 0)

\* C12: a parameter value 'true' / 'false' (any case) on the range key or on
\* an indexed attribute is placed into the filter as the integer 1 / 0, never
\* as a string, and the request does not fail
C12_BooleanBecomesInteger ==
    /\ (/\ req.via = "detail" /\ ViaGetList
        /\ T.rname \in DOMAIN req.q
        /\ BoolLike(req.q[T.rname])
        /\ DOMAIN req.q \subseteq {T.rname, "limit", "reverse"})
       => /\ resp.err = ""
          /\ (T.rname \o "__eq") \in DOMAIN resp.filt
          /\ resp.filt[T.rname \o "__eq"] = <<BoolInt(req.q[T.rname])>>
    /\ \A ix \in T.indexes :
        (/\ req.via = "list"
         /\ {T.hname, ix.field} \subseteq DOMAIN req.q
         /\ BoolLike(req.q[ix.field])
         /\ DOMAIN req.q \subseteq {T.hname, ix.field, "limit", "reverse"})
        => /\ resp.err = ""
           /\ (ix.field \o "__eq") \in DOMAIN resp.filt
           /\ resp.filt[ix.field \o "__eq"] = <<BoolInt(req.q[ix.field])>>

\* the request was executed as a query on an index with keys-only projection
KeysOnlyQuery ==
    /\ ViaGetList
    /\ resp.op = "query"
    /\ resp.err # "StorageError"
    /\ "index" \in DOMAIN resp.filt
    /\ IndexOf(T, resp.filt).projection_type = "KEYS_ONLY"
\* the rows the store's query returned for the call of the response
QueryReturned == StoreQuery(T, store, resp.filt, resp.limit, resp.asc).rows

\* C13: a query on a keys-only index is followed by a batch-get with the
\* hash and range key of every row the query returned, and every item of the
\* response is the stored item with all its attributes
C13_KeysOnlyBatchGet ==
    KeysOnlyQuery
    => /\ (Len(QueryReturned) > 0 =>
              /\ resp.batch
              /\ resp.batch_keys = [i \in 1..Len(QueryReturned) |-> KeyOf(T, QueryReturned[i])])
       /\ \A i \in 1..Len(resp.items) :
              \E j \in 1..Len(store) : resp.items[i] = store[j]
\* a keys-only query whose items carry an attribute the index does not project
C13_Witness ==
    /\ KeysOnlyQuery
    /\ resp.batch
    /\ Len(resp.items) > 0
    /\ \E a \in DOMAIN resp.items[1] :
           a \notin KeyAttrs(T) \cup {IndexOf(T, resp.filt).field}

\* some stored item has every attribute of the body, with the body's value
StoredWith(data) ==
    \E i \in 1..Len(store) :
        \A a \in DOMAIN data : a \in DOMAIN store[i] /\ store[i][a] = Enc(data[a])

\* C14: a PATCH on a detail URI whose key matches no stored item does not
\* fail: the create path runs, an item with the attributes of the request is
\* in the store afterwards and the response is not a not-found response
C14_PatchUpserts ==
    (req.via = "patch" /\ ~req.existed)
    => /\ resp.err = ""
       /\ StoredWith(Merge(get_dynamo_filter(T, req.kw), req.q))

\* C16: obj_update applied a second time with the same keys and the same
\* attributes succeeds and leaves the store as the first application left it
C16_ObjUpdateIdempotent ==
    (req.via = "put" /\ resp.err = "")
    => LET again == obj_update(T, store, req.kw, req.q)
       IN /\ again.err = ""
          /\ again.rows = store
          /\ again.item = resp.items[1]
\* an obj_update with an attribute in the body that created an item
C16_Witness ==
    /\ req.via = "put" /\ resp.err = ""
    /\ ~req.existed
    /\ Len(store) > Len(T.rows)
    /\ DOMAIN req.q # {}

\* C15: a list request without the hash key is executed as a scan whose
\* filter holds every other predicate of the request: the range key's
\* equality or prefix, each <attr>__from / <attr>__to pair, each indexed
\* attribute's equality or prefix
C15_ScanKeepsPredicates ==
    (/\ req.via = "list"
     /\ T.hasRange
     /\ T.hname \notin DOMAIN req.q
     /\ FirstPage(req.q))
    => /\ resp.op = "scan"
       /\ (T.rname \in DOMAIN req.q =>
              \E c \in {T.rname \o "__eq", T.rname \o "__beginswith"} : c \in DOMAIN resp.filt)
       /\ \A a \in BetweenAttrs(req.q) :
              (CanInt(req.q[a \o "__from"]) /\ CanInt(req.q[a \o "__to"]))
              => /\ (a \o "__between") \in DOMAIN resp.filt
                 /\ resp.filt[a \o "__between"] = <<PInt(ToInt(req.q[a \o "__from"])),
                                                    PInt(ToInt(req.q[a \o "__to"]))>>
       /\ \A ix \in T.indexes :
              ix.field \in DOMAIN req.q
              => \E c \in {ix.field \o "__eq", ix.field \o "__beginswith"} : c \in DOMAIN resp.filt

\* C17: a list request that carries <hash key name>=<value>, whatever the
\* case of the letters of the name, is executed as a query with the equality
\* on the hash key for that value, not as a scan
C17_HashKeyNameCase ==
    (/\ req.via = "list"
     /\ T.hasRange
     /\ T.hname \in DOMAIN req.q
     /\ DOMAIN req.q \subseteq {T.hname, "limit", "reverse"})
    => /\ resp.err = ""
       /\ resp.op = "query"
       /\ (T.hname \o "__eq") \in DOMAIN resp.filt
       /\ resp.filt[T.hname \o "__eq"] = <<req.q[T.hname]>>

\* the hybrid request a client starts from: the hash key, an equality on the
\* indexed attribute, bounds on the range key, ascending, nothing else but a
\* limit
TheIndex == CHOOSE ix \in T.indexes : TRUE
OriginBounds ==
    <<ToInt(origin.q[T.rname \o "__from"]), ToInt(origin.q[T.rname \o "__to"])>>
\* the stored rows the request asks for
OriginMatches ==
    { store[i] : i \in { j \in 1..Len(store) :
        /\ store[j][T.hname] = origin.q[T.hname]
        /\ store[j][TheIndex.field] = origin.q[TheIndex.field]
        /\ OriginBounds[1] <= store[j][T.rname].n
        /\ store[j][T.rname].n <= OriginBounds[2] } }
OriginHybrid ==
    /\ origin.via = "list"
    /\ T.hasRange /\ T.rtype = "N" /\ T.indexes # {}
    /\ {T.hname, TheIndex.field, T.rname \o "__from", T.rname \o "__to"} \subseteq DOMAIN origin.q
    /\ DOMAIN origin.q \subseteq
         {T.hname, TheIndex.field, T.rname \o "__from", T.rname \o "__to", "limit"}
    /\ ~IsWild(origin.q[TheIndex.field]) /\ ~BoolLike(origin.q[TheIndex.field])
    /\ CanInt(origin.q[T.rname \o "__from"]) /\ CanInt(origin.q[T.rname \o "__to"])
    /\ \A r \in OriginMatches : r[T.rname].n > 0

\* C18: following 'next' from a hybrid request, ascending, over rows with
\* positive range keys: no request fails, every page with a 'next' URI holds
\* a row, every row seen matches the request and is seen once, and when
\* 'next' is none every matching row was seen
C18_HybridPagesExact ==
    OriginHybrid
    => /\ resp.err = ""
       /\ (resp.next # <<>> => Len(resp.items) > 0)
       /\ \A i \in 1..Len(seen) : seen[i] \in OriginMatches
       /\ \A i, j \in 1..Len(seen) : i # j => seen[i] # seen[j]
       /\ (resp.next = <<>> => \A r \in OriginMatches : \E i \in 1..Len(seen) : seen[i] = r)

====
